---- MODULE Spec2Model ----
(***************************************************************************)
(* Left-leaning red-black tree of red-black-tree.ts (RedBlackTree<K,V>).   *)
(*                                                                         *)
(* Nodes live in a heap (a sequence of node records addressed by index),   *)
(* because the code mutates nodes in place: when an assertion throws in    *)
(* the middle of a recursive call, every mutation made so far stays        *)
(* visible through this.#root.  Every helper takes and returns a machine   *)
(* state  s = [h, size, fail, node]:  h the heap, size the #size field,    *)
(* fail the source line of the assertion that threw (0 = none), node the   *)
(* value returned by the helper.  Two more fields observe the call without *)
(* taking part in it: moves, the colours met at each moveRedLeft /         *)
(* moveRedRight call, and removed, the colour of each node a delete        *)
(* method returned null in place of.                                       *)
(***************************************************************************)
EXTENDS Integers, Sequences, FiniteSets, TLC

\* ---------------------------------------------------------------- bounds
MaxKey == 4
MaxValue == 2
MaxSize == 5
MaxIter == 2

Keys == 1..MaxKey
Values == 1..MaxValue

\* ------------------------------------------------------ node / colour model
Null == 0
Red == "Red"
Black == "Black"

\* new Node(key, value): a fresh node is red and has no children
NewNode(key, value) ==
  [key |-> key, value |-> value, color |-> Red, left |-> Null, right |-> Null]

\* the ordering and equality capabilities, on integer keys
equality(a, b) == a = b
lessThan(a, b) == a < b
lessThanOrEqual(a, b) == a <= b
greaterThanOrEqual(a, b) == a >= b

\* assert(cond) throws when cond is false: the failing line is recorded
Throw(s, line) == [s EXCEPT !.fail = line]
Ret(s, n) == [s EXCEPT !.node = n]

\* colour of a link, as isRed reads it: a null link is black
ColorOf(s, n) == IF n = Null THEN Black ELSE s.h[n].color

\* a call of fn on node n whose child on the side it moves to is c: the
\* colours of n, of c and of c.left at the call
Move(s, fn, n, c) ==
  [s EXCEPT !.moves = @ \cup
     {[fn |-> fn, node |-> ColorOf(s, n), child |-> ColorOf(s, c),
       grandchild |-> IF c = Null THEN Black ELSE ColorOf(s, s.h[c].left)]}]

\* this.#size -= 1; return null: node n is removed
Remove(s, n) ==
  [s EXCEPT !.size = @ - 1, !.node = Null,
            !.removed = @ \cup {s.h[n].color}]

\* ------------------------------------------------------------- primitives
\* The statements of a function are chained as local operators, each taking
\* the machine state left by the statement before it; a state whose fail is
\* set is passed through unchanged (the exception unwinds the call stack).
isRed(s, n) == IF n = Null THEN FALSE ELSE s.h[n].color = Red

flipColor(s, n) ==
  [s EXCEPT !.h[n].color = IF isRed(s, n) THEN Black ELSE Red]

flipColors(s, n) ==
  LET flipRight(s2) ==
        IF s2.h[n].right = Null THEN Throw(s2, 28)
        ELSE flipColor(s2, s2.h[n].right)
      flipLeft(s1) ==
        IF s1.h[n].left = Null THEN Throw(s1, 25)
        ELSE flipRight(flipColor(s1, s1.h[n].left))
  IN flipLeft(flipColor(s, n))

rotateLeft(s, n) ==
  LET right == s.h[n].right IN
  IF right = Null THEN Throw(s, 36) ELSE
  [s EXCEPT !.h = [s.h EXCEPT ![n].right = s.h[right].left,
                              ![right].left = n,
                              ![right].color = s.h[n].color,
                              ![n].color = Red],
            !.node = right]

rotateRight(s, n) ==
  LET left == s.h[n].left IN
  IF left = Null THEN Throw(s, 49) ELSE
  [s EXCEPT !.h = [s.h EXCEPT ![n].left = s.h[left].right,
                              ![left].right = n,
                              ![left].color = s.h[n].color,
                              ![n].color = Red],
            !.node = left]

moveRedLeft(s, n) ==
  LET flipBack(s3) ==
        IF s3.fail # 0 THEN s3 ELSE flipColors(s3, s3.node)
      rotate(s2) ==
        IF s2.fail # 0 THEN s2
        ELSE flipBack(rotateLeft([s2 EXCEPT !.h[n].right = s2.node], n))
      borrow(s1) ==
        IF s1.fail # 0 THEN s1
        ELSE IF s1.h[n].right = Null THEN Throw(s1, 63)
        ELSE IF isRed(s1, s1.h[s1.h[n].right].left)
             THEN rotate(rotateRight(s1, s1.h[n].right))
             ELSE Ret(s1, n)
  IN borrow(flipColors(Move(s, "moveRedLeft", n, s.h[n].left), n))

moveRedRight(s, n) ==
  LET flipBack(s2) ==
        IF s2.fail # 0 THEN s2 ELSE flipColors(s2, s2.node)
      borrow(s1) ==
        IF s1.fail # 0 THEN s1
        ELSE IF s1.h[n].left = Null THEN Throw(s1, 79)
        ELSE IF isRed(s1, s1.h[s1.h[n].left].left)
             THEN flipBack(rotateRight(s1, n))
             ELSE Ret(s1, n)
  IN borrow(flipColors(Move(s, "moveRedRight", n, s.h[n].right), n))

fixUp(s, n) ==
  LET split(s2) ==
        IF s2.fail # 0 THEN s2
        ELSE IF isRed(s2, s2.h[s2.node].left) /\ isRed(s2, s2.h[s2.node].right)
             THEN flipColors(s2, s2.node)
             ELSE s2
      leanRight(s1) ==
        IF s1.fail # 0 THEN s1
        ELSE split(IF isRed(s1, s1.h[s1.node].left)
                   THEN IF s1.h[s1.node].left = Null THEN Throw(s1, 95)
                        ELSE IF isRed(s1, s1.h[s1.h[s1.node].left].left)
                             THEN rotateRight(s1, s1.node)
                             ELSE s1
                   ELSE s1)
  IN leanRight(IF isRed(s, s.h[n].right) /\ ~isRed(s, s.h[n].left)
               THEN rotateLeft(s, n)
               ELSE Ret(s, n))

\* ------------------------------------------------- private recursive methods
RECURSIVE p_get(_, _, _)
p_get(h, n, key) ==
  IF n = Null THEN Null
  ELSE IF equality(key, h[n].key) THEN n
  ELSE IF lessThan(key, h[n].key) THEN p_get(h, h[n].left, key)
  ELSE p_get(h, h[n].right, key)

RECURSIVE p_min(_, _)

\* #min descending to the right
p_min_right(h, n) == IF h[n].right = Null THEN n ELSE p_min(h, h[n].right)

p_min(h, n) == IF h[n].left = Null THEN n ELSE p_min(h, h[n].left)

RECURSIVE p_max(_, _)
p_max(h, n) == IF h[n].right = Null THEN n ELSE p_max(h, h[n].right)

RECURSIVE p_previous(_, _, _)

\* #previous comparing with lessThan: a node holding the key itself qualifies
p_previous_orEqual(h, n, key) ==
  IF n = Null THEN Null
  ELSE IF lessThan(key, h[n].key) THEN p_previous(h, h[n].left, key)
  ELSE LET previous == p_previous(h, h[n].right, key) IN
       IF previous # Null THEN previous ELSE n

p_previous(h, n, key) ==
  IF n = Null THEN Null
  ELSE IF lessThanOrEqual(key, h[n].key) THEN p_previous(h, h[n].left, key)
  ELSE LET previous == p_previous(h, h[n].right, key) IN
       IF previous # Null THEN previous ELSE n

RECURSIVE p_next(_, _, _)
p_next(h, n, key) ==
  IF n = Null THEN Null
  ELSE IF greaterThanOrEqual(key, h[n].key) THEN p_next(h, h[n].right, key)
  ELSE LET next == p_next(h, h[n].left, key) IN
       IF next # Null THEN next ELSE n

\* node.left = <result r of the recursive call>, node.right = <result r>
LinkLeft(r, n) ==
  IF r.fail # 0 THEN r ELSE [r EXCEPT !.h[n].left = r.node, !.node = n]
LinkRight(r, n) ==
  IF r.fail # 0 THEN r ELSE [r EXCEPT !.h[n].right = r.node, !.node = n]
\* return fixUp(node)
ReturnFixUp(s) == IF s.fail # 0 THEN s ELSE fixUp(s, s.node)

RECURSIVE p_set(_, _, _, _)

\* #set descending to the wrong side: right for a smaller key, left for a larger
p_set_wrongSide(s, n, key, value) ==
  IF n = Null
  THEN [s EXCEPT !.size = @ + 1,
                 !.h = Append(@, NewNode(key, value)),
                 !.node = Len(s.h) + 1]
  ELSE ReturnFixUp(
         IF equality(key, s.h[n].key)
         THEN [s EXCEPT !.h[n].value = value, !.node = n]
         ELSE IF lessThan(key, s.h[n].key)
         THEN LinkRight(p_set(s, s.h[n].right, key, value), n)
         ELSE LinkLeft(p_set(s, s.h[n].left, key, value), n))

\* #set that finds the key but does not store the new value
p_set_keepValue(s, n, key, value) ==
  IF n = Null
  THEN [s EXCEPT !.size = @ + 1,
                 !.h = Append(@, NewNode(key, value)),
                 !.node = Len(s.h) + 1]
  ELSE ReturnFixUp(
         IF equality(key, s.h[n].key)
         THEN [s EXCEPT !.node = n]
         ELSE IF lessThan(key, s.h[n].key)
         THEN LinkLeft(p_set(s, s.h[n].left, key, value), n)
         ELSE LinkRight(p_set(s, s.h[n].right, key, value), n))

\* #set that also counts an overwrite as a new key
p_set_countOverwrite(s, n, key, value) ==
  IF n = Null
  THEN [s EXCEPT !.size = @ + 1,
                 !.h = Append(@, NewNode(key, value)),
                 !.node = Len(s.h) + 1]
  ELSE ReturnFixUp(
         IF equality(key, s.h[n].key)
         THEN [s EXCEPT !.h[n].value = value, !.node = n, !.size = @ + 1]
         ELSE IF lessThan(key, s.h[n].key)
         THEN LinkLeft(p_set(s, s.h[n].left, key, value), n)
         ELSE LinkRight(p_set(s, s.h[n].right, key, value), n))

p_set(s, n, key, value) ==
  IF n = Null
  THEN [s EXCEPT !.size = @ + 1,
                 !.h = Append(@, NewNode(key, value)),
                 !.node = Len(s.h) + 1]
  ELSE ReturnFixUp(
         IF equality(key, s.h[n].key)
         THEN [s EXCEPT !.h[n].value = value, !.node = n]
         ELSE IF lessThan(key, s.h[n].key)
         THEN LinkLeft(p_set(s, s.h[n].left, key, value), n)
         ELSE LinkRight(p_set(s, s.h[n].right, key, value), n))

RECURSIVE p_deleteMin(_, _)
p_deleteMin(s, n) ==
  IF s.h[n].left = Null
  THEN Remove(s, n)
  ELSE
    LET descend(s1) ==
          IF s1.fail # 0 THEN s1
          ELSE IF s1.h[s1.node].left = Null THEN Throw(s1, 503)
          ELSE LinkLeft(p_deleteMin(s1, s1.h[s1.node].left), s1.node)
    IN ReturnFixUp(descend(
         IF ~isRed(s, s.h[n].left) /\ ~isRed(s, s.h[s.h[n].left].left)
         THEN moveRedLeft(s, n)
         ELSE Ret(s, n)))

RECURSIVE p_deleteMax(_, _)
p_deleteMax(s, n) ==
  LET descend(s1) ==
        IF s1.fail # 0 THEN s1
        ELSE IF s1.h[s1.node].right = Null THEN Throw(s1, 524)
        ELSE LinkRight(p_deleteMax(s1, s1.h[s1.node].right), s1.node)
      atNode(s0) ==
        IF s0.fail # 0 THEN s0
        ELSE IF s0.h[s0.node].right = Null
        THEN Remove(s0, s0.node)
        ELSE ReturnFixUp(descend(
               IF ~isRed(s0, s0.h[s0.node].right)
                  /\ ~isRed(s0, s0.h[s0.h[s0.node].right].left)
               THEN moveRedRight(s0, s0.node)
               ELSE s0))
  IN atNode(IF isRed(s, s.h[n].left) THEN rotateRight(s, n) ELSE Ret(s, n))

RECURSIVE p_delete(_, _, _)
p_delete(s, n, key) ==
  LET \* lines 540-541: recurse into node.left
      descendLeft(s1) ==
        IF s1.fail # 0 THEN s1
        ELSE IF s1.h[s1.node].left = Null THEN Throw(s1, 540)
        ELSE LinkLeft(p_delete(s1, s1.h[s1.node].left, key), s1.node)
      \* lines 562-565: copy the successor's key and value into node
      splice(s2) ==
        LET min == p_min(s2.h, s2.h[s2.node].right) IN
        [s2 EXCEPT !.h[s2.node].key = s2.h[min].key,
                   !.h[s2.node].value = s2.h[min].value]
      \* lines 559-571
      removeOrDescend(s1) ==
        IF s1.fail # 0 THEN s1
        ELSE IF equality(key, s1.h[s1.node].key)
        THEN IF s1.h[s1.node].right = Null THEN Throw(s1, 560)
             ELSE LinkRight(p_deleteMin(splice(s1), s1.h[s1.node].right),
                            s1.node)
        ELSE IF s1.h[s1.node].right # Null
             THEN LinkRight(p_delete(s1, s1.h[s1.node].right, key), s1.node)
             ELSE s1
      \* lines 547-557
      atNode(s0) ==
        IF s0.fail # 0 THEN s0
        ELSE IF equality(key, s0.h[s0.node].key) /\ s0.h[s0.node].right = Null
        THEN Remove(s0, s0.node)
        ELSE ReturnFixUp(removeOrDescend(
               IF ~isRed(s0, s0.h[s0.node].right)
                  /\ s0.h[s0.node].right # Null
                  /\ ~isRed(s0, s0.h[s0.h[s0.node].right].left)
               THEN moveRedRight(s0, s0.node)
               ELSE s0))
  IN
  IF lessThan(key, s.h[n].key)
  THEN IF s.h[n].left = Null THEN Throw(s, 532)
       ELSE ReturnFixUp(descendLeft(
              IF ~isRed(s, s.h[n].left) /\ ~isRed(s, s.h[s.h[n].left].left)
              THEN moveRedLeft(s, n)
              ELSE Ret(s, n)))
  ELSE atNode(IF isRed(s, s.h[n].left) THEN rotateRight(s, n) ELSE Ret(s, n))

\* --------------------------------------------------------- public methods
\* A tree object is t = [h, root, size]; a call yields the object's fields
\* after the call, the failing assertion (0 = returned normally) and the
\* returned value.
Enter(t) ==
  [h |-> t.h, size |-> t.size, fail |-> 0, node |-> Null,
   moves |-> {}, removed |-> {}]
Raise(t, r) ==
  [h |-> r.h, root |-> t.root, size |-> r.size, fail |-> r.fail,
   ret |-> "threw", moves |-> r.moves, removed |-> r.removed]
Return(r, newRoot, val) ==
  [h |-> r.h, root |-> newRoot, size |-> r.size, fail |-> 0, ret |-> val,
   moves |-> r.moves, removed |-> r.removed]
Bool(b) == IF b THEN "true" ELSE "false"

\* lines 349-357, 370-378, 393-401: store the root, blacken it when present,
\* report whether #size went down
StoreRoot(t, r) ==
  IF r.fail # 0 THEN Raise(t, r)
  ELSE IF r.node = Null THEN Return(r, Null, Bool(r.size < t.size))
  ELSE Return([r EXCEPT !.h[r.node].color = Black], r.node,
              Bool(r.size < t.size))

\* clear that drops the root and leaves #size as it was
clear_keepSize(t) == Return(Enter(t), Null, "void")

clear(t) == Return([Enter(t) EXCEPT !.size = 0], Null, "void")

get(t, key) ==
  LET node == p_get(t.h, t.root, key) IN
  IF node = Null THEN 0 ELSE t.h[node].value

\* undefined is 0, which is no key and no value
min(t) == IF t.root = Null THEN 0 ELSE t.h[p_min(t.h, t.root)].key

max(t) == IF t.root = Null THEN 0 ELSE t.h[p_max(t.h, t.root)].key

previous(t, key) ==
  LET node == p_previous(t.h, t.root, key) IN
  IF node = Null THEN 0 ELSE t.h[node].key

next(t, key) ==
  LET node == p_next(t.h, t.root, key) IN
  IF node = Null THEN 0 ELSE t.h[node].key

\* set that leaves the root the colour #set returned it with
set_keepRootColor(t, key, value) ==
  LET store(r) ==
        IF r.fail # 0 THEN Raise(t, r) ELSE Return(r, r.node, "this")
  IN store(p_set(Enter(t), t.root, key, value))

set(t, key, value) ==
  LET store(r) ==
        IF r.fail # 0 THEN Raise(t, r)
        ELSE Return([r EXCEPT !.h[r.node].color = Black], r.node, "this")
  IN store(p_set(Enter(t), t.root, key, value))

deleteMin(t) ==
  IF t.root = Null THEN Return(Enter(t), t.root, "false")
  ELSE StoreRoot(t, p_deleteMin(Enter(t), t.root))

deleteMax(t) ==
  IF t.root = Null THEN Return(Enter(t), t.root, "false")
  ELSE StoreRoot(t, p_deleteMax(Enter(t), t.root))

delete(t, key) ==
  IF t.root = Null THEN Return(Enter(t), t.root, "false")
  ELSE StoreRoot(t, p_delete(Enter(t), t.root, key))

\* ------------------------------------------------------ entries() iterator
\* An iterator is it = [node, stack]; next() yields the iterator afterwards,
\* the done flag and the [key, value] entry.
entries(t) == [node |-> t.root, stack |-> <<>>]

RECURSIVE iterNext(_, _)
iterNext(h, it) ==
  IF it.node # Null \/ Len(it.stack) > 0
  THEN IF it.node # Null
       THEN iterNext(h, [node |-> h[it.node].left,
                         stack |-> Append(it.stack, it.node)])
       ELSE LET last == it.stack[Len(it.stack)] IN
            [it |-> [node |-> h[last].right,
                     stack |-> SubSeq(it.stack, 1, Len(it.stack) - 1)],
             done |-> FALSE,
             value |-> <<h[last].key, h[last].value>>]
  ELSE [it |-> it, done |-> TRUE, value |-> <<>>]

\* the sequence of entries a for-of loop over the iterator collects
RECURSIVE Collect(_, _)
Collect(h, it) ==
  LET r == iterNext(h, it) IN
  IF r.done THEN <<>> ELSE <<r.value>> \o Collect(h, r.it)

Entries(t) == Collect(t.h, entries(t))

\* keys() and values() wrap an entries() iterator and project what it yields
keysNext(h, it) ==
  LET step == iterNext(h, it) IN
  IF step.done THEN step ELSE [step EXCEPT !.value = step.value[1]]

valuesNext(h, it) ==
  LET step == iterNext(h, it) IN
  IF step.done THEN step ELSE [step EXCEPT !.value = step.value[2]]

\* ------------------------------------------------------------------ state
VARIABLES heap, root, size, op, ret, fail, moves, removed, res, its
vars == <<heap, root, size, op, ret, fail, moves, removed, res, its>>

\* heap, root, size : the nodes reachable from #root, #root and #size
\* op               : the last public call: its name and arguments, and old,
\*                    the value get(key) had when it was made (0 = absent)
\* ret, fail        : what the call returned ("threw" when an assertion
\*                    failed) and the line of the failed assertion
\* moves, removed   : the moveRedLeft / moveRedRight calls the call made and
\*                    the colour of the node it removed
\* res              : the key, value or number a query returned (0 = undefined)
\* its              : the iterators obtained since the last call of a method
\*                    of the tree other than entries/keys/values, each with
\*                    its kind, its node and stack, what it has yielded and
\*                    whether its last next() was done; an iterator is
\*                    followed until the next such call

Tree == [h |-> heap, root |-> root, size |-> size]

\* Node identity is not observable: after a call the nodes reachable from the
\* root are renumbered in pre-order and the unreachable ones are dropped
\* (garbage collected).
RECURSIVE Preorder(_, _)
Preorder(h, n) ==
  IF n = Null THEN <<>>
  ELSE <<n>> \o Preorder(h, h[n].left) \o Preorder(h, h[n].right)

Canon(h, r) ==
  LET ord == Preorder(h, r)
      ren(a) == IF a = Null THEN Null
                ELSE CHOOSE i \in 1..Len(ord) : ord[i] = a
  IN [i \in 1..Len(ord) |->
        [h[ord[i]] EXCEPT !.left = ren(@), !.right = ren(@)]]

Call(name, key, value) ==
  [name |-> name, key |-> key, value |-> value,
   old |-> IF key = 0 THEN 0 ELSE get(Tree, key),
   empty |-> root = Null]

\* #size is a counter without a bound once a throw has detached nodes: calls
\* are explored while it stays within MaxSize
Commit(o, call) ==
  /\ o.size <= MaxSize
  /\ heap' = Canon(o.h, o.root)
  /\ root' = IF o.root = Null THEN Null ELSE 1
  /\ size' = o.size
  /\ ret' = o.ret
  /\ fail' = o.fail
  /\ moves' = o.moves
  /\ removed' = o.removed
  /\ op' = call
  /\ res' = 0
  /\ its' = <<>>

Init ==
  /\ heap = <<>>
  /\ root = Null
  /\ size = 0
  /\ op = [name |-> "new", key |-> 0, value |-> 0, old |-> 0, empty |-> TRUE]
  /\ ret = "void"
  /\ fail = 0
  /\ moves = {}
  /\ removed = {}
  /\ res = 0
  /\ its = <<>>

Set(key, value) ==
  \E o \in {set(Tree, key, value)} : Commit(o, Call("set", key, value))

Delete(key) ==
  \E o \in {delete(Tree, key)} : Commit(o, Call("delete", key, 0))

DeleteMin ==
  \E o \in {deleteMin(Tree)} : Commit(o, Call("deleteMin", 0, 0))

DeleteMax ==
  \E o \in {deleteMax(Tree)} : Commit(o, Call("deleteMax", 0, 0))

Clear ==
  \E o \in {clear(Tree)} : Commit(o, Call("clear", 0, 0))

Next ==
  \/ \E key \in Keys, value \in Values : Set(key, value)
  \/ \E key \in Keys : Delete(key)
  \/ DeleteMin
  \/ DeleteMax
  \/ Clear

Spec == Init /\ [][Next]_vars

\* A query reads the tree and returns: no field of the tree is assigned.
Query(call, value) ==
  /\ op' = call
  /\ ret' = "value"
  /\ res' = value
  /\ fail' = 0
  /\ moves' = {}
  /\ removed' = {}
  /\ its' = <<>>
  /\ UNCHANGED <<heap, root, size>>

Size == Query(Call("size", 0, 0), size)

Get(key) == Query(Call("get", key, 0), get(Tree, key))

Min == Query(Call("min", 0, 0), min(Tree))

\* max() that unlinks the node it finds, as deleteMax does
Max_unlinking ==
  \E o \in {deleteMax(Tree)} : Commit(o, Call("max", 0, 0))

Max == Query(Call("max", 0, 0), max(Tree))

Previous(key) == Query(Call("previous", key, 0), previous(Tree, key))

NextKey(key) == Query(Call("next", key, 0), next(Tree, key))

\* entries(), keys(), values(): a new iterator on the root with an empty stack
Iterator(kind) ==
  /\ Len(its) < MaxIter
  /\ its' = Append(its, [kind |-> kind, it |-> entries(Tree), out |-> <<>>,
                         done |-> FALSE])
  /\ op' = Call(kind, 0, 0)
  /\ ret' = "iterator"
  /\ res' = 0
  /\ fail' = 0
  /\ moves' = {}
  /\ removed' = {}
  /\ UNCHANGED <<heap, root, size>>

\* next() of the i-th iterator
IteratorNext(i) ==
  \E step \in {IF its[i].kind = "keys" THEN keysNext(heap, its[i].it)
               ELSE IF its[i].kind = "values" THEN valuesNext(heap, its[i].it)
               ELSE iterNext(heap, its[i].it)} :
    /\ its' = [its EXCEPT ![i] =
                 [kind |-> @.kind, it |-> step.it,
                  out |-> IF step.done THEN @.out
                          ELSE Append(@.out, step.value),
                  done |-> step.done]]
    /\ op' = Call("iterator.next", 0, 0)
    /\ ret' = IF step.done THEN "done" ELSE "value"
    /\ res' = 0
    /\ fail' = 0
    /\ moves' = {}
    /\ removed' = {}
    /\ UNCHANGED <<heap, root, size>>

NextQuery ==
  \/ Next
  \/ Size
  \/ Min
  \/ Max
  \/ \E key \in Keys : Get(key)
  \/ \E key \in Keys : Previous(key)
  \/ \E key \in Keys : NextKey(key)
  \/ \E kind \in {"entries", "keys", "values"} : Iterator(kind)
  \/ \E i \in 1..Len(its) : IteratorNext(i)

SpecQuery == Init /\ [][NextQuery]_vars

\* only set calls (the constructor's loop over an iterable is such a sequence)
NextSet == \E key \in Keys, value \in Values : Set(key, value)

SpecSet == Init /\ [][NextSet]_vars

\* ------------------------------------------------------- tree measurements
Returned == ret # "threw"
Mutated == op.name \in {"set", "delete", "deleteMin", "deleteMax", "clear"}
Balancing == op.name \in {"set", "delete", "deleteMin", "deleteMax"}

\* number of black nodes on every path from n to a null child; -1 when two
\* paths differ
RECURSIVE BlackHeight(_, _)
BlackHeight(h, n) ==
  IF n = Null THEN 0
  ELSE LET l == BlackHeight(h, h[n].left)
           r == BlackHeight(h, h[n].right)
       IN IF l < 0 \/ r < 0 \/ l # r THEN -1
          ELSE l + (IF h[n].color = Black THEN 1 ELSE 0)

NodeIsRed(h, n) == n # Null /\ h[n].color = Red

KeysOf(e) == [i \in 1..Len(e) |-> e[i][1]]
StrictlyIncreasing(ks) == \A i \in 1..(Len(ks) - 1) : ks[i] < ks[i + 1]
HasKey(t, k) == \E i \in 1..Len(Entries(t)) : Entries(t)[i][1] = k
NodeCount(t) == Len(Preorder(t.h, t.root))
KeyCount(t, k) == Cardinality({i \in 1..Len(Entries(t)) : Entries(t)[i][1] = k})

KeySet(t) == {Entries(t)[i][1] : i \in 1..Len(Entries(t))}
Largest(ks) == IF ks = {} THEN 0 ELSE CHOOSE k \in ks : \A j \in ks : j <= k
Smallest(ks) == IF ks = {} THEN 0 ELSE CHOOSE k \in ks : \A j \in ks : k <= j

Cleared == root = Null /\ size = 0 /\ heap = <<>>
QueryNames ==
  {"size", "get", "min", "max", "previous", "next", "entries", "keys",
   "values", "iterator.next"}

\* what an iterator of the kind yields over the entries e
Project(kind, e) ==
  [i \in 1..Len(e) |-> IF kind = "keys" THEN e[i][1]
                       ELSE IF kind = "values" THEN e[i][2]
                       ELSE e[i]]

\* The reference map, kept as its entries sorted by key: put, remove-if-present,
\* remove smallest / largest if any, empty.
RefPut(e, k, v) ==
  LET below == SelectSeq(e, LAMBDA x : x[1] < k)
      above == SelectSeq(e, LAMBDA x : x[1] > k)
  IN below \o <<(<<k, v>>)>> \o above
RefRemove(e, k) == SelectSeq(e, LAMBDA x : x[1] # k)
RefApply(e, call) ==
  IF call.name = "set" THEN RefPut(e, call.key, call.value)
  ELSE IF call.name = "delete" THEN RefRemove(e, call.key)
  ELSE IF call.name = "deleteMin" THEN (IF e = <<>> THEN e ELSE Tail(e))
  ELSE IF call.name = "deleteMax"
       THEN (IF e = <<>> THEN e ELSE SubSeq(e, 1, Len(e) - 1))
  ELSE IF call.name = "clear" THEN <<>>
  ELSE e

TypeOK ==
  /\ root \in {Null, 1}
  /\ size \in Int
  /\ ret \in {"void", "this", "true", "false", "threw", "value", "iterator",
              "done"}
  /\ res \in 0..(MaxKey + MaxValue + MaxSize)
  /\ Len(its) <= MaxIter

\* ------------------------------------------------------------------ claims

\* C1: after every set/delete/deleteMin/deleteMax call that returns, every
\* path from the root to a null child crosses the same number of black nodes.
C1_BlackBalance ==
  (Balancing /\ Returned) => BlackHeight(heap, root) >= 0

\* C2: after every set/delete/deleteMin/deleteMax call that returns, no node
\* has a red right child and no red node has a red left child.
C2_NoRightRedNoDoubleRed ==
  (Balancing /\ Returned) =>
    \A n \in 1..Len(heap) :
      /\ ~NodeIsRed(heap, heap[n].right)
      /\ ~(heap[n].color = Red /\ NodeIsRed(heap, heap[n].left))

C5_SizeIsNodeCount ==
  (Mutated /\ Returned) =>
    /\ size = NodeCount(Tree)
    /\ (size = 0 <=> root = Null)

\* C6: delete(k) of a key k not in the tree raises no error, returns false and
\* leaves size and the entries unchanged.
C6_DeleteAbsent ==
  [][(op'.name = "delete" /\ ~HasKey(Tree, op'.key)) =>
       /\ ret' = "false"
       /\ size' = size
       /\ Entries(Tree') = Entries(Tree)]_vars

\* C7: no public call makes an internal assertion fail.
C7_NoAssertFails ==
  fail = 0 /\ ret # "threw"

\* C8: delete(k) of a key k in the tree returns true, afterwards get(k) is
\* absent and size is one less.
C8_DeletePresent ==
  [][(op'.name = "delete" /\ HasKey(Tree, op'.key)) =>
       /\ ret' = "true"
       /\ get(Tree', op'.key) = 0
       /\ size' = size - 1]_vars

\* C9: over sequences of set calls, get(k) is the value of the most recent
\* set(k, v) and absent for a key never set.  Stated one call at a time: a new
\* tree has no key; set(k, v) makes get(k) = v and leaves get(j) of every other
\* key j as it was.
C9_GetLastSet ==
  /\ \A k \in Keys : get(Tree, k) = 0
  /\ [][op'.name = "set" =>
          /\ get(Tree', op'.key) = op'.value
          /\ \A j \in Keys \ {op'.key} : get(Tree', j) = get(Tree, j)]_vars

\* C10: set(k, v) adds exactly 1 to size when k is not in the tree, leaves
\* size unchanged when it is, and the tree then holds exactly one node for k.
C10_SetSize ==
  [][op'.name = "set" =>
       /\ size' = size + (IF HasKey(Tree, op'.key) THEN 0 ELSE 1)
       /\ KeyCount(Tree', op'.key) = 1]_vars

\* C11: previous(q) returns the largest key of the tree strictly below q and
\* next(q) the smallest key strictly above q, undefined when there is none,
\* for q in the tree or not; q itself is never returned.
C11_PreviousNext ==
  /\ op.name = "previous" =>
       /\ res = Largest({k \in KeySet(Tree) : k < op.key})
       /\ res # op.key
  /\ op.name = "next" =>
       /\ res = Smallest({k \in KeySet(Tree) : k > op.key})
       /\ res # op.key

\* C12: on a tree that is not empty deleteMin() returns true and removes
\* exactly the smallest key, deleteMax() returns true and removes exactly the
\* largest key, every other entry is left as it was and size goes down by one;
\* so n calls remove the n keys in increasing (decreasing) order and leave the
\* tree empty.
C12_DeleteMinMaxInOrder ==
  [][
    /\ (op'.name = "deleteMin" /\ root # Null) =>
         /\ ret' = "true"
         /\ Entries(Tree') = Tail(Entries(Tree))
         /\ size' = size - 1
         /\ (Len(Entries(Tree)) = 1 => root' = Null)
    /\ (op'.name = "deleteMax" /\ root # Null) =>
         /\ ret' = "true"
         /\ Entries(Tree') = SubSeq(Entries(Tree), 1, Len(Entries(Tree)) - 1)
         /\ size' = size - 1
         /\ (Len(Entries(Tree)) = 1 => root' = Null)
  ]_vars

\* C13: min() returns the smallest and max() the largest key stored; both
\* return undefined on an empty tree.
C13_MinMax ==
  /\ op.name = "min" => res = Smallest(KeySet(Tree))
  /\ op.name = "max" => res = Largest(KeySet(Tree))
  /\ (op.name \in {"min", "max"} /\ root = Null) => res = 0

\* C14: a new tree and a tree after clear() are empty with size 0; on such a
\* tree size is 0, get/min/max/previous/next return undefined,
\* delete/deleteMin/deleteMax return false, the first next() of an iterator is
\* done, no call throws and every call but set leaves the tree empty.
C14_EmptyTree ==
  /\ [](op.name \in {"new", "clear"} => Cleared /\ fail = 0 /\ ret = "void")
  /\ [][Cleared =>
          /\ fail' = 0 /\ ret' # "threw"
          /\ op'.name \in {"size", "get", "min", "max", "previous", "next"}
                => res' = 0
          /\ op'.name \in {"delete", "deleteMin", "deleteMax"}
                => ret' = "false"
          /\ op'.name = "iterator.next"
                => ret' = "done" /\ \A i \in 1..Len(its') : its'[i].out = <<>>
          /\ op'.name # "set" => Cleared']_vars

\* C15: over an unmodified tree every iterator, whatever the steps of the
\* others, has yielded a prefix of the in-order sequence of its kind, is done
\* only after the whole sequence, and the whole sequence has size elements; a
\* new iterator has yielded nothing and starts at the root.
C15_IteratorsIndependent ==
  \A i \in 1..Len(its) :
    LET all == Project(its[i].kind, Entries(Tree)) IN
    /\ Len(its[i].out) <= Len(all)
    /\ its[i].out = SubSeq(all, 1, Len(its[i].out))
    /\ its[i].done => its[i].out = all
    /\ Len(all) = size

\* C16: at every moveRedLeft(node) call of a delete, deleteMin or deleteMax,
\* node is red and node.left and node.left.left are black; at every
\* moveRedRight(node) call, node is red and node.right and node.right.left
\* are black.
C16_MoveRedPrecondition ==
  \A m \in moves :
    m.node = Red /\ m.child = Black /\ m.grandchild = Black

\* C17: a node that #deleteMin, #deleteMax or #delete removes (returns null in
\* place of) is red when it is removed.
C17_RemovedNodeRed ==
  \A c \in removed : c = Red

\* C18: set(k, v) of a key k in the tree changes the value stored in k's node
\* and nothing else: every link, colour, key, other value and size stay.
C18_OverwriteInPlace ==
  [][(op'.name = "set" /\ HasKey(Tree, op'.key)) =>
       /\ ret' = "this"
       /\ size' = size
       /\ root' = root
       /\ heap' = [n \in 1..Len(heap) |->
                     IF heap[n].key = op'.key
                     THEN [heap[n] EXCEPT !.value = op'.value]
                     ELSE heap[n]]]_vars

C20_RefinesMap ==
  /\ Entries(Tree) = <<>> /\ size = 0
  /\ [][op'.name \in {"set", "delete", "deleteMin", "deleteMax", "clear"} =>
          LET ref == RefApply(Entries(Tree), op') IN
          /\ Entries(Tree') = ref
          /\ size' = Len(ref)
          /\ op'.name \in {"delete", "deleteMin", "deleteMax"} =>
                (ret' = "true" <=> Len(ref) < Len(Entries(Tree)))
                /\ ret' \in {"true", "false"}
          /\ op'.name = "set" => ret' = "this"]_vars

\* ---------------------------------------------------------------- witnesses

C9_Witness ==
  /\ op.name = "set"
  /\ op.old # 0
  /\ op.old # op.value
  /\ get(Tree, op.key) = op.value
  /\ Len(Entries(Tree)) >= 3

\* C10: a set of a key already in a tree of at least three keys, themselves
\* added by sets of new keys, returned
C10_Witness ==
  /\ op.name = "set"
  /\ ret = "this"
  /\ op.old # 0
  /\ size >= 3
  /\ size = NodeCount(Tree)

\* C11: previous(q) of a key q that is in a tree of at least three keys
\* returned the key below it
C11_Witness ==
  /\ op.name = "previous"
  /\ op.old # 0
  /\ res # 0
  /\ res < op.key
  /\ Len(Entries(Tree)) >= 3

\* C13: min() of a tree of at least three keys returned a key that is not the
\* root's
C13_Witness ==
  /\ op.name = "min"
  /\ res # 0
  /\ res # heap[root].key
  /\ Len(Entries(Tree)) >= 3

\* C14: clear() was called on a tree that was not empty
C14_Witness ==
  /\ op.name = "clear"
  /\ ~op.empty
  /\ Cleared

====
